---- MODULE Spec2Model ----
(***************************************************************************)
(* FeedGuideRunner (src/parser.py): one runner object and its run() method *)
(* as a state machine.  The runner's fields, the browser objects that the  *)
(* automation engine keeps alive, the local variables of run() and the     *)
(* outcome the caller of run() observes are the state.  What the outside   *)
(* world does (an element is found or not, a page opens or not, a fetch    *)
(* succeeds or not) is drawn with \E in each action.                       *)
(*                                                                         *)
(* Python values: a dict is a function from its keys, so "k in d" is       *)
(* k \in DOMAIN d; None is the handle 0; a string that the code only       *)
(* copies is a TLA+ string; a string the code takes apart or tests for     *)
(* emptiness (a URL, a file name) is a sequence of one-character strings.  *)
(***************************************************************************)
EXTENDS Integers, Sequences, FiniteSets, TLC

VARIABLES
    reuse_browser,  \* self.reuse_browser
    _playwright,    \* self._playwright (0 is None)
    _browser,       \* self._browser    (0 is None)
    _context,       \* self._context    (0 is None)
    live,           \* engine objects that exist and are not closed
    nextId,         \* the next fresh object handle
    pc,             \* where the caller's run() call stands
    results,        \* run(): results
    steps,          \* run(): the steps of the guide enumerated so far
    page,           \* run(): page (0 before it is acquired)
    exc,            \* the exception in flight or raised to the caller
    trace,          \* per enumerated step: what the outside world did
    written,        \* files this run wrote: <<directory, file name>>
    runs,           \* run() calls made on this runner
    call            \* the last _safe_click_by_text call on a page whose
                    \* elements are modelled: arguments, page, result

vars == <<reuse_browser, _playwright, _browser, _context, live, nextId, pc,
          results, steps, page, exc, trace, written, runs, call>>

(* ---- bounds ---------------------------------------------------------- *)
MaxSteps == 2
MaxRuns == 2
MaxCalls == 1
MaxAnchors == 2

(* ---- Python helpers -------------------------------------------------- *)
Get(d, k, default) == IF k \in DOMAIN d THEN d[k] ELSE default

Put(d, k, v) == [f \in DOMAIN d \cup {k} |-> IF f = k THEN v ELSE d[f]]

\* bool(step.get(k)) for a string-valued key
Truthy(d, k) == k \in DOMAIN d /\ d[k] # <<>>

\* an exception: its message and the RunResults attached to it.  Every
\* exception of run() is built from a message alone (lines 164, 166, 189, 213,
\* 235, 241) or comes from the engine.
Exception(msg) == [message |-> msg, carries |-> {}]

NoExc == Exception("none")

Obj(kind, id, owner) == [kind |-> kind, id |-> id, owner |-> owner]

(* ---- session: _start_browser, _stop_browser, _ensure_page ------------ *)
Self == [playwright |-> _playwright, browser |-> _browser, context |-> _context,
         live |-> live, nextId |-> nextId, exc |-> NoExc]

LaunchOutcomes == {"ok", "start", "launch", "context", "page"}

\* launch names the call of _start_browser that raises, if any
_start_browser(s, launch) ==
    IF s.browser # 0 THEN s
    ELSE IF launch = "start" THEN [s EXCEPT !.exc = Exception("engine start failed")]
    ELSE LET s1 == [s EXCEPT !.playwright = s.nextId,
                             !.live = @ \cup {Obj("playwright", s.nextId, 0)},
                             !.nextId = @ + 1]
         IN IF launch = "launch" THEN [s1 EXCEPT !.exc = Exception("browser launch failed")]
            ELSE LET s2 == [s1 EXCEPT !.browser = s1.nextId,
                                      !.live = @ \cup {Obj("browser", s1.nextId, s1.playwright)},
                                      !.nextId = @ + 1]
                 IN IF launch = "context" THEN [s2 EXCEPT !.exc = Exception("new_context failed")]
                    ELSE [s2 EXCEPT !.context = s2.nextId,
                                    !.live = @ \cup {Obj("context", s2.nextId, s2.browser)},
                                    !.nextId = @ + 1]

\* closing an object closes what it owns
Owned(objs, id) == {o \in objs : o.owner = id}

CloseContext(objs, id) == {o \in objs : o.id # id /\ o.owner # id}

CloseBrowser(objs, id) ==
    LET ctxs == {o.id : o \in Owned(objs, id)}
    IN {o \in objs : o.id # id /\ o.owner # id /\ o.owner \notin ctxs}

StopPlaywright(objs, id) ==
    LET brs == {o.id : o \in Owned(objs, id)}
        ctxs == {o.id : o \in {x \in objs : x.owner \in brs}}
    IN {o \in objs : o.id # id /\ o.owner # id /\ o.owner \notin brs /\ o.owner \notin ctxs}

StopOutcomes == {"ok", "context", "browser", "playwright"}

\* stop names the close call of _stop_browser that raises, if any
_stop_browser(s, stop) ==
    LET s1 == IF s.context # 0
              THEN IF stop = "context" THEN [s EXCEPT !.exc = Exception("context close failed")]
                   ELSE [s EXCEPT !.live = CloseContext(@, s.context), !.context = 0]
              ELSE s
        s2 == IF s1.exc = NoExc /\ s1.browser # 0
              THEN IF stop = "browser" THEN [s1 EXCEPT !.exc = Exception("browser close failed")]
                   ELSE [s1 EXCEPT !.live = CloseBrowser(@, s1.browser), !.browser = 0]
              ELSE s1
    IN IF s2.exc = NoExc /\ s2.playwright # 0
       THEN IF stop = "playwright" THEN [s2 EXCEPT !.exc = Exception("engine stop failed")]
            ELSE [s2 EXCEPT !.live = StopPlaywright(@, s2.playwright), !.playwright = 0]
       ELSE s2

\* the page is the record's field page; 0 when the call raised
_ensure_page(s, reuse, launch) ==
    LET s1 == IF ~reuse \/ s.context = 0 THEN _start_browser(s, launch) ELSE s
        none == [playwright |-> s1.playwright, browser |-> s1.browser,
                 context |-> s1.context, live |-> s1.live, nextId |-> s1.nextId,
                 exc |-> s1.exc, page |-> 0]
    IN IF s1.exc # NoExc THEN none
       ELSE IF s1.context = 0
            THEN [none EXCEPT !.exc = Exception("'NoneType' object has no attribute 'new_page'")]
       ELSE IF launch = "page" \/ Obj("context", s1.context, s1.browser) \notin s1.live
            THEN [none EXCEPT !.exc = Exception("new_page failed")]
       ELSE [none EXCEPT !.page = s1.nextId,
                         !.live = @ \cup {Obj("page", s1.nextId, s1.context)},
                         !.nextId = @ + 1]

(* ---- construction ---------------------------------------------------- *)
\* __init__: with reuse_browser the browser is started in the constructor; a
\* constructor that raises leaves no runner behind.
Init ==
    /\ reuse_browser \in BOOLEAN
    /\ LET s0 == [playwright |-> 0, browser |-> 0, context |-> 0,
                  live |-> {}, nextId |-> 1, exc |-> NoExc]
           s == IF reuse_browser THEN _start_browser(s0, "ok") ELSE s0
       IN /\ _playwright = s.playwright
          /\ _browser = s.browser
          /\ _context = s.context
          /\ live = s.live
          /\ nextId = s.nextId
    /\ pc = "idle"
    /\ results = [feed_name |-> "X", steps |-> <<>>, downloads |-> <<>>]
    /\ steps = <<>>
    /\ page = 0
    /\ exc = NoExc
    /\ trace = <<>>
    /\ written = {}
    /\ runs = 0
    /\ call = [made |-> FALSE]

(* ---- run(): entry ---------------------------------------------------- *)
\* lines 117-119: the result is created and the page acquired before the try
Begin ==
    /\ pc = "idle"
    /\ runs < MaxRuns
    /\ \E launch \in LaunchOutcomes :
         LET s == _ensure_page(Self, reuse_browser, launch)
         IN /\ _playwright' = s.playwright
            /\ _browser' = s.browser
            /\ _context' = s.context
            /\ live' = s.live
            /\ nextId' = s.nextId
            /\ page' = s.page
            /\ exc' = s.exc
            /\ pc' = IF s.exc = NoExc THEN "running" ELSE "raised"
    /\ results' = [feed_name |-> "X", steps |-> <<>>, downloads |-> <<>>]
    /\ steps' = <<>>
    /\ trace' = <<>>
    /\ written' = {}
    /\ runs' = runs + 1
    /\ UNCHANGED <<reuse_browser, call>>

(* ---- the feed guide -------------------------------------------------- *)
Url == <<"h", "/", "f">>
Selector == <<"#", "a">>
Text == <<"N", "e", "x", "t">>
SaveAs == <<"s">>
Suggested == <<"g">>

WithFlag(S) == S \cup {Put(s, "continue_on_error", TRUE) : s \in S}

\* The step dicts the guides are drawn from.  Each specification draws its
\* guides from one of three sets; together they hold every action name, every
\* locator combination the dispatch tells apart, and the flag on every step
\* whose branch reads it.
FlowSteps ==
    WithFlag({[action |-> "goto", url |-> Url], [action |-> "scroll"],
              [action |-> "click", text |-> Text], [action |-> "click"],
              [action |-> "click_new_page", selector |-> Selector],
              [action |-> "download", url |-> Url],
              [action |-> "download", selector |-> Selector],
              [action |-> "download"]})
    \cup {[action |-> "wait"], [action |-> "fill", selector |-> Selector],
          [action |-> "click", selector |-> Selector],
          [action |-> "click", selector |-> Selector, continue_on_error |-> FALSE],
          [action |-> "click_new_page", text |-> Text],
          [action |-> "click_new_page", continue_on_error |-> TRUE],
          [action |-> "download", text |-> Text], [url |-> Url]}

DownloadSteps ==
    WithFlag({[action |-> "download", url |-> Url],
              [action |-> "download", selector |-> Selector]})
    \cup {[action |-> "download", url |-> Url, save_as |-> SaveAs],
          [action |-> "download", url |-> Url, selector |-> Selector],
          [action |-> "download", selector |-> Selector, save_as |-> SaveAs],
          [action |-> "download", text |-> Text],
          [action |-> "download", text |-> Text, save_as |-> SaveAs],
          [action |-> "download", selector |-> <<>>],
          [action |-> "goto", url |-> Url]}

PageSteps ==
    WithFlag({[action |-> "click_new_page", selector |-> Selector],
              [action |-> "click_new_page", text |-> Text],
              [action |-> "click_new_page"]})
    \cup {[action |-> "goto", url |-> Url], [action |-> "GoTo", url |-> Url],
          [action |-> "wait"], [action |-> "fill", selector |-> Selector],
          [action |-> "wait_for_selector", selector |-> Selector],
          [action |-> "click", selector |-> Selector, text |-> Text],
          [action |-> "click", text |-> Text],
          [action |-> "click_text", text |-> Text],
          [action |-> "download", selector |-> Selector],
          [action |-> "download", url |-> Url]}

\* URLs of every shape the file name depends on: a plain last segment, a
\* trailing slash, a query string, a query string holding a slash, no slash
Urls == {Url, <<"h", "/", "d", "/">>, <<"h", "/", "f", "?", "q">>,
         <<"h", "/", "f", "?", "/", "q">>, <<"h">>}

\* direct-fetch download steps: every URL, without save_as, with one, with
\* an empty one
FetchSteps ==
    {[action |-> "download", url |-> u] : u \in Urls}
    \cup {[action |-> "download", url |-> u, save_as |-> n] : u \in Urls, n \in {SaveAs, <<>>}}

\* the steps of guides run one after another on one runner: a step that
\* acts on the page and a step that opens a page, flagged and not
SessionSteps ==
    WithFlag({[action |-> "click_new_page", selector |-> Selector]})
    \cup {[action |-> "goto", url |-> Url]}

\* the click by text
ResolverSteps == {[action |-> "click", text |-> Text]}

\* str.lower() on the action names a guide uses
Lower(a) == IF a = "GoTo" THEN "goto" ELSE a

(* ---- what the outside world does during one step --------------------- *)
\* op: the page call (goto, click, fill, wait_for_selector) returns or times out
\* resolver: which strategy of _safe_click_by_text clicks, if any
\* event: the awaited new page or download arrives or the wait times out
\* load: the new page reaches the load state or the wait times out
\* fetch: requests.get and the file write of the direct fetch
\* save: download.save_as, first (fixed name) and second (destination) call
Quiet == [op |-> "ok", resolver |-> "primary", event |-> "fired", load |-> "ok",
          fetch |-> "ok", save |-> "ok", suggested |-> Suggested]

\* everything the outside world can do during a step
World ==
    [op : {"ok", "timeout"}, resolver : {"primary", "fallback", "notfound"},
     event : {"fired", "timeout"}, load : {"ok", "timeout"},
     fetch : {"ok", "neterror", "writeerror"}, save : {"ok", "first", "second"},
     suggested : {Suggested, <<>>}]

\* the same, with downloads that always carry the one suggested name and
\* whose first save succeeds
PlainWorld == {o \in World : o.save # "first" /\ o.suggested = Suggested}

Branch(step) ==
    IF Truthy(step, "selector") THEN "selector"
    ELSE IF Truthy(step, "text") THEN "text" ELSE "none"

action_of(step) == Lower(Get(step, "action", ""))

Outcomes(step) ==
    LET a == action_of(step)
        ops == {"ok", "timeout"}
        res == {"primary", "fallback", "notfound"}
    IN IF a \in {"goto", "wait_for_selector", "fill"}
       THEN {[Quiet EXCEPT !.op = x] : x \in ops}
       ELSE IF a \in {"click", "click_text"}
       THEN IF Branch(step) = "selector" THEN {[Quiet EXCEPT !.op = x] : x \in ops}
            ELSE IF Branch(step) = "text" THEN {[Quiet EXCEPT !.resolver = x] : x \in res}
            ELSE {Quiet}
       ELSE IF a = "click_new_page"
       THEN IF Branch(step) = "selector"
            THEN {[Quiet EXCEPT !.op = "timeout"], [Quiet EXCEPT !.event = "timeout"],
                  [Quiet EXCEPT !.load = "timeout"], Quiet}
            ELSE IF Branch(step) = "text"
            THEN {[Quiet EXCEPT !.resolver = x, !.event = y, !.load = z] :
                      x \in {"primary", "notfound"}, y \in {"fired", "timeout"},
                      z \in {"ok", "timeout"}}
                 \ {[Quiet EXCEPT !.resolver = x, !.event = "timeout", !.load = "timeout"] :
                      x \in {"primary", "notfound"}}
            ELSE {Quiet}
       ELSE IF a = "download"
       THEN IF "url" \in DOMAIN step
            THEN {[Quiet EXCEPT !.fetch = x] : x \in {"ok", "neterror", "writeerror"}}
            ELSE IF Branch(step) = "selector"
            THEN {[Quiet EXCEPT !.op = "timeout"], [Quiet EXCEPT !.event = "timeout"],
                  [Quiet EXCEPT !.save = "first"], [Quiet EXCEPT !.save = "second"],
                  Quiet, [Quiet EXCEPT !.suggested = <<>>]}
            ELSE IF Branch(step) = "text"
            THEN {[Quiet EXCEPT !.resolver = "notfound"], [Quiet EXCEPT !.event = "timeout"],
                  [Quiet EXCEPT !.save = "first"], [Quiet EXCEPT !.save = "second"],
                  Quiet, [Quiet EXCEPT !.resolver = "fallback", !.suggested = <<>>]}
            ELSE {Quiet}
       ELSE {Quiet}

(* ---- helpers of run() ------------------------------------------------ *)
\* a runner that never reads the flag
never_continue(step) == FALSE

\* step.get("continue_on_error", False)
continue_on_error(step) == Get(step, "continue_on_error", FALSE)

Ok(c, info) == [c EXCEPT !.sr = Put(Put(@, "status", "ok"), "info", info)]

Raise(c, msg) == [c EXCEPT !.exc = Exception(msg)]

\* a runner that forgets to switch
StayOnPage(old_page, new_page) == old_page

\* lines 177 and 185: the new page becomes the page of the following steps
FollowNewPage(old_page, new_page) == new_page

\* _safe_click_by_text: (ok, info) by the strategy that clicked
_safe_click_by_text(o) ==
    IF o.resolver = "primary" THEN [ok |-> TRUE, info |-> "Clicked by text"]
    ELSE IF o.resolver = "fallback"
         THEN [ok |-> TRUE, info |-> "Clicked fallback element with text"]
    ELSE [ok |-> FALSE, info |-> "Element with text not found"]

(* ---- _safe_click_by_text on the elements of a page ------------------- *)
\* str.strip() of a text whose only whitespace is the blank
Strip(str) ==
    LET I == {i \in 1..Len(str) : str[i] # " "}
    IN IF I = {} THEN <<>>
       ELSE SubSeq(str, CHOOSE i \in I : \A j \in I : i <= j,
                        CHOOSE i \in I : \A j \in I : j <= i)

\* str.lower() on the letters the texts use
LowerChars(str) ==
    [i \in 1..Len(str) |->
        IF str[i] = "N" THEN "n" ELSE IF str[i] = "E" THEN "e"
        ELSE IF str[i] = "X" THEN "x" ELSE IF str[i] = "T" THEN "t" ELSE str[i]]

\* sub in str
Contains(str, sub) ==
    \E i \in 0..(Len(str) - Len(sub)) : SubSeq(str, i + 1, i + Len(sub)) = sub

\* the texts of the elements a page holds: blank, the hint in lower case,
\* the hint in upper case inside a longer padded text, a prefix of the hint
Inners ==
    {<<" ">>, <<"n", "e", "x", "t">>, <<" ", "N", "E", "X", "T", "!">>,
     <<"N", "e", "x">>}

\* an element: whether inner_text() returns or raises, the text it returns,
\* whether click() returns or raises
Candidates ==
    [read : {"ok"}, inner : Inners, click : {"ok"}]
    \cup {[read |-> "ok", inner |-> <<" ", "N", "E", "X", "T", "!">>, click |-> "raise"],
          [read |-> "raise", inner |-> <<>>, click |-> "ok"]}

RECURSIVE Lists(_, _)
Lists(S, n) ==
    IF n = 0 THEN {<<>>}
    ELSE Lists(S, n - 1) \cup {Append(l, x) : l \in {m \in Lists(S, n - 1) : Len(m) = n - 1}, x \in S}

\* what a page does when the resolver runs on it: the primary click returns
\* or raises, query_selector_all returns the elements in order or raises
Pages ==
    [primary : {"ok", "raise"}, query : {"ok"}, anchors : Lists(Candidates, MaxAnchors)]
    \cup {[primary |-> "raise", query |-> "raise", anchors |-> <<>>]}

\* a loop that goes on to the next element after a click that returned
RECURSIVE FallbackAll(_, _, _)
FallbackAll(text, anchors, i) ==
    IF i > Len(anchors) THEN [found |-> FALSE, attempts |-> <<>>, clicked |-> <<>>]
    ELSE LET a == anchors[i]
             rest == FallbackAll(text, anchors, i + 1)
             inner == Strip(a.inner)
         IN IF a.read = "raise" THEN rest
            ELSE IF inner = <<>> THEN rest
            ELSE IF ~Contains(LowerChars(inner), LowerChars(text)) THEN rest
            ELSE IF a.click = "raise" THEN [rest EXCEPT !.attempts = <<i>> \o @]
            ELSE [found |-> TRUE, attempts |-> <<i>> \o rest.attempts,
                  clicked |-> <<i>> \o rest.clicked]

\* lines 77-87: the loop over the elements, from the i-th on.  attempts are
\* the elements whose click() was called, clicked those whose click()
\* returned.
RECURSIVE Fallback(_, _, _)
Fallback(text, anchors, i) ==
    IF i > Len(anchors) THEN [found |-> FALSE, attempts |-> <<>>, clicked |-> <<>>]
    ELSE LET a == anchors[i]
             rest == Fallback(text, anchors, i + 1)
             inner == Strip(a.inner)
         IN IF a.read = "raise" THEN rest
            ELSE IF inner = <<>> THEN rest
            ELSE IF ~Contains(LowerChars(inner), LowerChars(text)) THEN rest
            ELSE IF a.click = "raise" THEN [rest EXCEPT !.attempts = <<i>> \o @]
            ELSE [found |-> TRUE, attempts |-> <<i>>, clicked |-> <<i>>]

\* lines 67-89.  strategy is what the table _safe_click_by_text reads;
\* first is whether the primary click, on the first element the text
\* selector finds, returned.
ClickByText(text, primary, query, anchors) ==
    LET miss == [ok |-> FALSE, strategy |-> "notfound", first |-> FALSE,
                 attempts |-> <<>>, clicked |-> <<>>]
    IN IF primary = "ok"
       THEN [miss EXCEPT !.ok = TRUE, !.strategy = "primary", !.first = TRUE]
       ELSE IF query = "raise" THEN miss
       ELSE LET f == Fallback(text, anchors, 1)
            IN IF f.found
               THEN [miss EXCEPT !.ok = TRUE, !.strategy = "fallback",
                                 !.attempts = f.attempts, !.clicked = f.clicked]
               ELSE [miss EXCEPT !.attempts = f.attempts]

\* a runner that takes url.split("/")[0]
RECURSIVE FirstSegment(_)
FirstSegment(url) ==
    IF url = <<>> THEN <<>>
    ELSE IF url[1] = "/" THEN <<>>
    ELSE <<url[1]>> \o FirstSegment(Tail(url))

\* url.split("/")[-1]
RECURSIVE LastSegment(_)
LastSegment(url) ==
    IF url = <<>> THEN <<>>
    ELSE IF url[Len(url)] = "/" THEN <<>>
    ELSE Append(LastSegment(SubSeq(url, 1, Len(url) - 1)), url[Len(url)])

DownloadBin == <<"download.bin">>

\* os.path.join(self.download_dir, name): an absolute name replaces the directory
Join(name) ==
    IF name # <<>> /\ name[1] = "/" THEN <<"/", name>> ELSE <<"download_dir", name>>

\* _download_via_requests: the returned dict and the files it wrote.  save_as
\* is <<>> for None.
_download_via_requests(url, save_as, fetch) ==
    IF fetch = "neterror"
    THEN [r |-> [ok |-> FALSE, error |-> "HTTP error"], written |-> {}]
    ELSE LET filename == IF save_as # <<>> THEN save_as
                         ELSE IF LastSegment(url) # <<>> THEN LastSegment(url)
                         ELSE DownloadBin
             dest == Join(filename)
         IN IF fetch = "writeerror"
            THEN [r |-> [ok |-> FALSE, error |-> "write failed"], written |-> {dest}]
            ELSE [r |-> [ok |-> TRUE, file |-> dest], written |-> {dest}]

\* a runner that prefers the suggested name
SuggestedFirst(step, suggested_filename) ==
    IF suggested_filename # <<>> THEN suggested_filename
    ELSE Get(step, "save_as", DownloadBin)

\* lines 222-223: the file name of a browser-triggered download
BrowserSaveName(step, suggested_filename) ==
    LET suggested == IF suggested_filename # <<>> THEN suggested_filename
                     ELSE IF Truthy(step, "save_as") THEN step.save_as
                     ELSE DownloadBin
    IN Get(step, "save_as", suggested)

\* a runner that lists the file whatever the fetch reports
ListFetchedAlways(downloads, r) ==
    Append(downloads, Get(r, "file", Join(DownloadBin)))

\* lines 196-197: a fetched file is listed when the fetch reports ok
ListFetched(downloads, r) ==
    IF Get(r, "ok", FALSE) THEN Append(downloads, r.file) ELSE downloads

\* line 228
ListSaved(downloads, dest) == Append(downloads, dest)

(* ---- the branches of the step dispatch ------------------------------- *)
\* c: the locals a branch reads and writes: sr (step_result), page, downloads
\* (results["downloads"]), the engine's objects, and exc, the exception the
\* branch raises

\* lines 126-149: goto, wait_for_selector, fill
DoPageCall(c, o, info) ==
    IF o.op = "ok" THEN Ok(c, info) ELSE Raise(c, "Timeout exceeded")

\* lines 132-136
DoWait(c) == Ok(c, "Waited")

\* a runner whose click by text records a miss and goes on
DoClickSoft(c, step, o) ==
    IF Truthy(step, "selector")
    THEN IF o.op = "ok" THEN Ok(c, "Clicked selector") ELSE Raise(c, "Timeout exceeded")
    ELSE IF Truthy(step, "text")
    THEN LET r == _safe_click_by_text(o)
         IN [c EXCEPT !.sr = Put(Put(@, "status", IF r.ok THEN "ok" ELSE "error"),
                                 "info", r.info)]
    ELSE Raise(c, "click requires selector or text")

\* lines 151-166
DoClick(c, step, o) ==
    IF Truthy(step, "selector")
    THEN IF o.op = "ok" THEN Ok(c, "Clicked selector") ELSE Raise(c, "Timeout exceeded")
    ELSE IF Truthy(step, "text")
    THEN LET r == _safe_click_by_text(o)
             c1 == [c EXCEPT !.sr = Put(Put(@, "status", IF r.ok THEN "ok" ELSE "error"),
                                        "info", r.info)]
         IN IF ~r.ok /\ ~continue_on_error(step) THEN Raise(c1, r.info) ELSE c1
    ELSE Raise(c, "click requires selector or text")

\* a runner that switches to the new page before waiting for its load state
AwaitNewPageEager(c, o, info) ==
    IF o.event = "timeout" THEN Raise(c, "Timeout exceeded")
    ELSE LET new_page == c.nextId
             c1 == [c EXCEPT !.live = @ \cup {Obj("page", new_page, c.context)},
                             !.nextId = @ + 1, !.opened = new_page,
                             !.page = new_page]
         IN IF o.load = "timeout" THEN Raise(c1, "Timeout exceeded")
            ELSE Ok(c1, info)

\* lines 173-179 and 181-187 after the click: the wait for the new page, the
\* wait for its load state, the switch of page
AwaitNewPage(c, o, info) ==
    IF o.event = "timeout" THEN Raise(c, "Timeout exceeded")
    ELSE LET new_page == c.nextId
             c1 == [c EXCEPT !.live = @ \cup {Obj("page", new_page, c.context)},
                             !.nextId = @ + 1, !.opened = new_page]
         IN IF o.load = "timeout" THEN Raise(c1, "Timeout exceeded")
            ELSE Ok([c1 EXCEPT !.page = FollowNewPage(c.page, new_page)], info)

\* lines 168-189
DoClickNewPage(c, step, o) ==
    IF Truthy(step, "selector")
    THEN IF o.op = "ok" THEN AwaitNewPage(c, o, "Opened new page via selector")
         ELSE Raise(c, "Timeout exceeded")
    ELSE IF Truthy(step, "text")
    THEN AwaitNewPage(c, o, "Opened new page via text")
    ELSE Raise(c, "click_new_page needs selector or text")

\* lines 217-228: the two saves of an arrived download
SaveDownload(c, step, o) ==
    IF o.save = "first" THEN Raise(c, "save_as failed")
    ELSE LET c1 == [c EXCEPT !.written = @ \cup {<<"cwd", <<"bos_history.xls">>>>}]
             dest == Join(BrowserSaveName(step, o.suggested))
         IN IF o.save = "second" THEN Raise(c1, "save_as failed")
            ELSE [c1 EXCEPT !.written = @ \cup {dest},
                            !.sr = Put(Put(@, "status", "ok"), "file", dest),
                            !.downloads = ListSaved(@, dest)]

\* lines 229-233: except PlaywrightTimeoutError
DownloadTimeout(c, step) ==
    LET c1 == [c EXCEPT !.sr = Put(Put(@, "status", "error"), "error", "download timeout")]
    IN IF ~continue_on_error(step) THEN Raise(c1, "Timeout exceeded") ELSE c1

\* lines 191-235
DoDownload(c, step, o) ==
    IF "url" \in DOMAIN step
    THEN LET d == _download_via_requests(step.url, Get(step, "save_as", <<>>), o.fetch)
             upd == [k \in DOMAIN c.sr \cup DOMAIN d.r |->
                        IF k \in DOMAIN d.r THEN d.r[k] ELSE c.sr[k]]
         IN [c EXCEPT !.sr = upd, !.written = @ \cup d.written,
                      !.downloads = ListFetched(@, d.r)]
    ELSE IF Truthy(step, "selector")
    THEN IF o.op = "timeout" \/ o.event = "timeout" THEN DownloadTimeout(c, step)
         ELSE SaveDownload(c, step, o)
    ELSE IF Truthy(step, "text")
    THEN IF ~_safe_click_by_text(o).ok THEN Raise(c, _safe_click_by_text(o).info)
         ELSE IF o.event = "timeout" THEN DownloadTimeout(c, step)
         ELSE SaveDownload(c, step, o)
    ELSE Raise(c, "download needs selector/text/url")

\* lines 237-241
DoUnknown(c, step) ==
    LET c1 == [c EXCEPT !.sr = Put(Put(@, "status", "error"), "error", "Unknown action")]
    IN IF ~continue_on_error(step) THEN Raise(c1, "Unknown action") ELSE c1

\* lines 125-241: the try body
Dispatch(c, step, o) ==
    LET a == c.sr.action
    IN IF a = "goto" THEN DoPageCall(c, o, "Navigated to")
       ELSE IF a = "wait" THEN DoWait(c)
       ELSE IF a = "wait_for_selector" THEN DoPageCall(c, o, "Selector ready")
       ELSE IF a = "fill" THEN DoPageCall(c, o, "Filled")
       ELSE IF a \in {"click", "click_text"} THEN DoClick(c, step, o)
       ELSE IF a = "click_new_page" THEN DoClickNewPage(c, step, o)
       ELSE IF a = "download" THEN DoDownload(c, step, o)
       ELSE DoUnknown(c, step)

\* a runner that raises again without recording the step
ConcludeUnrecorded(c, step) ==
    IF c.exc # NoExc
    THEN LET sr == Put(Put(c.sr, "status", "error"), "error", c.exc.message)
         IN IF continue_on_error(step)
            THEN [append |-> <<sr>>, reraise |-> FALSE]
            ELSE [append |-> <<>>, reraise |-> TRUE]
    ELSE [append |-> <<c.sr>>, reraise |-> FALSE]

\* lines 243-254: what is appended to results["steps"], and whether the
\* exception is raised again
Conclude(c, step) ==
    IF c.exc # NoExc
    THEN LET sr == Put(Put(c.sr, "status", "error"), "error", c.exc.message)
         IN IF continue_on_error(step)
            THEN [append |-> <<sr>>, reraise |-> FALSE]
            ELSE [append |-> <<sr>>, reraise |-> TRUE]
    ELSE [append |-> <<c.sr>>, reraise |-> FALSE]

(* ---- what the outside world did, for the record ---------------------- *)
\* whether the step's branch calls a method of page
UsesPage(step) ==
    LET a == action_of(step)
    IN \/ a \in {"goto", "wait_for_selector", "fill"}
       \/ a \in {"click", "click_text", "click_new_page"} /\ Branch(step) # "none"
       \/ a = "download" /\ "url" \notin DOMAIN step /\ Branch(step) # "none"

\* the cause of a step's failure, by the error taxonomy: "none" when the
\* step did what it names
Fault(step, o) ==
    LET a == action_of(step)
        b == Branch(step)
    IN IF a \in {"goto", "wait_for_selector", "fill"}
       THEN IF o.op = "ok" THEN "none" ELSE "resolution"
       ELSE IF a = "wait" THEN "none"
       ELSE IF a \in {"click", "click_text"}
       THEN IF b = "none" THEN "config"
            ELSE IF b = "selector" THEN IF o.op = "ok" THEN "none" ELSE "resolution"
            ELSE IF o.resolver = "notfound" THEN "resolution" ELSE "none"
       ELSE IF a = "click_new_page"
       THEN IF b = "none" THEN "config"
            ELSE IF b = "selector" /\ o.op # "ok" THEN "resolution"
            ELSE IF o.event = "timeout" \/ o.load = "timeout" THEN "resolution"
            ELSE "none"
       ELSE IF a = "download"
       THEN IF "url" \in DOMAIN step
            THEN IF o.fetch = "neterror" THEN "network"
                 ELSE IF o.fetch = "writeerror" THEN "io" ELSE "none"
            ELSE IF b = "none" THEN "config"
            ELSE IF b = "selector" /\ o.op # "ok" THEN "resolution"
            ELSE IF b = "text" /\ o.resolver = "notfound" THEN "resolution"
            ELSE IF o.event = "timeout" THEN "resolution"
            ELSE IF o.save # "ok" THEN "io" ELSE "none"
       ELSE "unknown"

(* ---- run(): one iteration of the loop -------------------------------- *)
\* lines 122-254.  The guide is read one step at a time: the step is drawn
\* from guide when the loop reaches it, and what the world does from world.
Perform(step, o) ==
    LET idx == Len(steps) + 1
        c0 == [sr |-> [step |-> idx, action |-> action_of(step), raw |-> step],
               page |-> page, downloads |-> results.downloads, live |-> live,
               nextId |-> nextId, written |-> written, context |-> _context,
               opened |-> 0, exc |-> NoExc]
        c == Dispatch(c0, step, o)
        end == Conclude(c, step)
    IN /\ steps' = Append(steps, step)
       /\ results' = [results EXCEPT !.steps = @ \o end.append,
                                     !.downloads = c.downloads]
       /\ page' = c.page
       /\ live' = c.live
       /\ nextId' = c.nextId
       /\ written' = c.written
       /\ trace' = Append(trace, [fault |-> Fault(step, o),
                                  page |-> IF UsesPage(step) THEN page ELSE 0,
                                  opened |-> c.opened,
                                  suggested |-> o.suggested])
       /\ exc' = IF end.reraise THEN c.exc ELSE NoExc
       /\ pc' = IF end.reraise THEN "aborting" ELSE "running"
       /\ UNCHANGED <<reuse_browser, _playwright, _browser, _context, runs>>

Iterate(guide, world) ==
    /\ pc = "running"
    /\ Len(steps) < MaxSteps
    /\ \E step \in guide : \E o \in Outcomes(step) \cap world : Perform(step, o)
    /\ UNCHANGED call

\* the same iteration for a click by text on a page whose elements are
\* modelled: the resolver's result is computed from them
ResolverStep ==
    /\ pc = "running"
    /\ Len(steps) < MaxCalls
    /\ \E step \in ResolverSteps : \E p \in Pages :
         LET r == ClickByText(step.text, p.primary, p.query, p.anchors)
         IN /\ Perform(step, [Quiet EXCEPT !.resolver = r.strategy])
            /\ call' = [made |-> TRUE, text |-> step.text, primary |-> p.primary,
                        query |-> p.query, anchors |-> p.anchors, result |-> r]

(* ---- run(): finally and exit ----------------------------------------- *)
\* a runner that stops the browser at the end of every run
ReleaseAlways(s, reuse, stop) == _stop_browser(s, stop)

\* a runner that never stops the browser
ReleaseNever(s, reuse, stop) == s

\* lines 262-263: if not self.reuse_browser: self._stop_browser()
Release(s, reuse, stop) == IF ~reuse THEN _stop_browser(s, stop) ELSE s

\* lines 256-265: page.close() (a failure is swallowed), _stop_browser() when
\* ephemeral, then the return or the propagation of the exception in flight
Finish ==
    /\ pc \in {"running", "aborting"}
    /\ \E closed \in BOOLEAN, stop \in StopOutcomes :
         LET afterPage == IF closed THEN {o \in live : o.id # page} ELSE live
             s0 == [Self EXCEPT !.live = afterPage]
             s == Release(s0, reuse_browser, stop)
         IN /\ _playwright' = s.playwright
            /\ _browser' = s.browser
            /\ _context' = s.context
            /\ live' = s.live
            /\ exc' = IF s.exc # NoExc THEN s.exc ELSE exc
            /\ pc' = IF s.exc = NoExc /\ pc = "running" THEN "returned" ELSE "raised"
    /\ UNCHANGED <<reuse_browser, nextId, results, steps, page, trace, written,
                   runs, call>>

(* ---- the caller: run() called again on the same runner --------------- *)
\* a run() call that returned or raised is over; the caller holds the runner
\* and may call run() again
Again ==
    /\ pc \in {"returned", "raised"}
    /\ runs < MaxRuns
    /\ pc' = "idle"
    /\ UNCHANGED <<reuse_browser, _playwright, _browser, _context, live, nextId,
                   results, steps, page, exc, trace, written, runs, call>>

(* ---- specifications -------------------------------------------------- *)
Step == Iterate(FlowSteps, PlainWorld)

DownloadStep == Iterate(DownloadSteps, World)

PageStep == Iterate(PageSteps, PlainWorld)

Next == Begin \/ Step \/ Finish

NextDownload == Begin \/ DownloadStep \/ Finish

NextPages == Begin \/ PageStep \/ Finish

FetchStep == Iterate(FetchSteps, PlainWorld)

NextFetch == Begin \/ FetchStep \/ Finish

NextResolver == Begin \/ ResolverStep \/ Finish

SessionStep == Iterate(SessionSteps, PlainWorld)

NextSession == Begin \/ SessionStep \/ Finish \/ Again

\* guides that exercise the continue-or-abort policy on every action
Spec == Init /\ [][Next]_vars

\* guides of download steps, every file-name case
SpecDownload == Init /\ [][NextDownload]_vars

\* guides that open new pages and act on pages
SpecPages == Init /\ [][NextPages]_vars

\* guides of direct-fetch downloads, every shape of URL
SpecFetch == Init /\ [][NextFetch]_vars

\* clicks by text on pages whose elements are modelled
SpecResolver == Init /\ [][NextResolver]_vars

\* run() called several times on one runner
SpecSession == Init /\ [][NextSession]_vars

(* ---- vocabulary of the properties ------------------------------------ *)
Attempted == 1..Len(steps)

Failed(k) == trace[k].fault # "none"

Flagged(k) == Get(steps[k], "continue_on_error", FALSE)

Status(k) == Get(results.steps[k], "status", "missing")

\* the run was aborted by step k: k is the last step enumerated, and the
\* run is unwinding or has raised
AbortedAt(k) == k = Len(steps) /\ pc \in {"aborting", "raised"}

\* run() is unwinding from an exception that step k raised again
UnwindingFrom(k) == k = Len(steps) /\ pc = "aborting"

(* ---- C1 -------------------------------------------------------------- *)
\* C1: a failing step without continue_on_error has its StepResult as the
\* last entry of steps and aborts the run; no later step is enumerated.
C1_FailingStepAborts ==
    \A k \in Attempted :
        Failed(k) /\ ~Flagged(k) =>
            /\ AbortedAt(k)
            /\ Len(results.steps) = k
            /\ results.steps[k].step = k

(* ---- C2 -------------------------------------------------------------- *)
\* C2: a failing step with continue_on_error=true has a StepResult with
\* status=error and does not abort the run.
C2_FlaggedFailureContinues ==
    \A k \in Attempted :
        Failed(k) /\ Flagged(k) =>
            /\ k <= Len(results.steps)
            /\ Status(k) = "error"
            /\ ~UnwindingFrom(k)

C4_FetchFailureIsStepError ==
    \A k \in Attempted :
        trace[k].fault = "network" =>
            /\ Status(k) = "error"
            /\ ~Flagged(k) => AbortedAt(k)

(* ---- C5 -------------------------------------------------------------- *)
\* C5: in ephemeral mode, once run() has returned or raised, the runner
\* holds no engine, browser or context, and none of them is left alive.
C5_EphemeralTornDown ==
    ~reuse_browser /\ pc \in {"returned", "raised"} =>
        /\ _playwright = 0
        /\ _browser = 0
        /\ _context = 0
        /\ live = {}

(* ---- C6 -------------------------------------------------------------- *)
\* C6: steps holds exactly one StepResult per step attempted so far, in
\* execution order, the k-th carrying index k; the step that aborts the run
\* has its one StepResult, the last, with status=error.
C6_OneResultPerStep ==
    /\ Len(results.steps) = Len(steps)
    /\ \A k \in 1..Len(results.steps) :
           /\ results.steps[k].step = k
           /\ results.steps[k].raw = steps[k]
    /\ pc = "aborting" => Len(steps) > 0 /\ Status(Len(steps)) = "error"

\* the second step of a run aborted it
C6_Witness ==
    /\ pc = "aborting"
    /\ Len(steps) = 2
    /\ Len(results.steps) = 2
    /\ Status(2) = "error"

(* ---- C7 -------------------------------------------------------------- *)
\* C7: run() either returns a RunResult with one StepResult for every step
\* of the guide, or raises a failure that carries the partial RunResult.
C7_ReturnsCompleteOrRaisesWithResult ==
    /\ pc = "returned" => Len(results.steps) = Len(steps)
    /\ \A k \in Attempted :
           pc = "raised" /\ k = Len(steps) /\ Failed(k) /\ ~Flagged(k) =>
               results \in exc.carries

(* ---- C8 -------------------------------------------------------------- *)
OpensPage(j) ==
    /\ action_of(steps[j]) = "click_new_page"
    /\ Status(j) = "ok"

\* the last successful click_new_page before step k, 0 if there is none
LastOpener(k) ==
    LET S == {j \in 1..(k - 1) : OpensPage(j)}
    IN IF S = {} THEN 0 ELSE CHOOSE j \in S : \A i \in S : i <= j

\* C8: after a successful click_new_page, every later step that acts on a
\* page acts on the page opened last, never on the page the click was made on.
C8_LaterStepsUseNewPage ==
    \A k \in Attempted :
        LastOpener(k) # 0 /\ trace[k].page # 0 =>
            /\ trace[k].page = trace[LastOpener(k)].opened
            /\ \A j \in 1..(k - 1) : OpensPage(j) => trace[k].page # trace[j].page

\* a goto after a successful click_new_page went to the new page
C8_Witness ==
    \E k \in Attempted :
        /\ LastOpener(k) # 0
        /\ action_of(steps[k]) = "goto"
        /\ trace[k].page = trace[LastOpener(k)].opened
        /\ trace[k].page # trace[LastOpener(k)].page

(* ---- C9 -------------------------------------------------------------- *)
Downloaded(k) == action_of(steps[k]) = "download" /\ ~Failed(k)

\* the files of the successful download steps among the first n, in order
RECURSIVE SavedFiles(_)
SavedFiles(n) ==
    IF n = 0 THEN <<>>
    ELSE IF Downloaded(n) THEN Append(SavedFiles(n - 1), Get(results.steps[n], "file", <<>>))
    ELSE SavedFiles(n - 1)

\* C9: downloads lists the saved paths of the successful download steps,
\* one per success, in order; a failed download adds nothing.
C9_DownloadsAreTheSavedFiles ==
    /\ Len(results.steps) = Len(steps) => results.downloads = SavedFiles(Len(steps))
    /\ \A i \in 1..Len(results.downloads) : results.downloads[i] \in written

\* a failed download followed by a successful one: one entry
C9_Witness ==
    /\ Len(steps) = 2
    /\ action_of(steps[1]) = "download" /\ Failed(1)
    /\ Downloaded(2)
    /\ Len(results.downloads) = 1

(* ---- C10 ------------------------------------------------------------- *)
BrowserDownloaded(k) == Downloaded(k) /\ "url" \notin DOMAIN steps[k]

\* C10: a browser-triggered download is saved in download_dir under save_as
\* when the step has one, else under the suggested file name when the
\* download has one, else under download.bin.
C10_SaveNamePrecedence ==
    \A k \in Attempted :
        BrowserDownloaded(k) =>
            results.steps[k].file =
                <<"download_dir",
                  IF "save_as" \in DOMAIN steps[k] THEN steps[k].save_as
                  ELSE IF trace[k].suggested # <<>> THEN trace[k].suggested
                  ELSE DownloadBin>>

\* the first case: save_as given and a different name suggested
C10_Witness ==
    \E k \in Attempted :
        /\ BrowserDownloaded(k)
        /\ "save_as" \in DOMAIN steps[k]
        /\ trace[k].suggested # <<>>
        /\ trace[k].suggested # steps[k].save_as
        /\ results.steps[k].file = <<"download_dir", steps[k].save_as>>

(* ---- C11 ------------------------------------------------------------- *)
Fetched(k) == Downloaded(k) /\ "url" \in DOMAIN steps[k]

\* the path of a URL: the URL up to its first "?" or "#"
PathOf(url) ==
    LET Q == {i \in 1..Len(url) : url[i] \in {"?", "#"}}
    IN IF Q = {} THEN url
       ELSE SubSeq(url, 1, (CHOOSE i \in Q : \A j \in Q : i <= j) - 1)

\* what follows the last "/" of a string, the whole string without one
AfterLastSlash(str) ==
    LET I == {i \in 1..Len(str) : str[i] = "/"}
    IN IF I = {} THEN str
       ELSE SubSeq(str, (CHOOSE i \in I : \A j \in I : j <= i) + 1, Len(str))

SavedName(k) == results.steps[k].file[2]

\* C11 as stated: a successful direct fetch is saved under the final path
\* segment of the URL when the step has no save_as, and under save_as when
\* it has one.
C11_FetchNameIsPathSegment ==
    \A k \in Attempted :
        Fetched(k) =>
            SavedName(k) = IF "save_as" \in DOMAIN steps[k] THEN steps[k].save_as
                           ELSE AfterLastSlash(PathOf(steps[k].url))

\* C11 amended: under save_as when the step has a non-empty one; otherwise
\* under what follows the last "/" of the whole URL, query string included,
\* when that is not empty, and else under download.bin.
C11_FetchNameIsUrlTail ==
    \A k \in Attempted :
        Fetched(k) =>
            SavedName(k) =
                IF Get(steps[k], "save_as", <<>>) # <<>> THEN steps[k].save_as
                ELSE IF AfterLastSlash(steps[k].url) # <<>>
                     THEN AfterLastSlash(steps[k].url)
                ELSE DownloadBin

\* a URL with a trailing slash was fetched without save_as and saved as
\* download.bin
C11_Witness ==
    \E k \in Attempted :
        /\ Fetched(k)
        /\ "save_as" \notin DOMAIN steps[k]
        /\ steps[k].url[Len(steps[k].url)] = "/"
        /\ SavedName(k) = DownloadBin

(* ---- C12 ------------------------------------------------------------- *)
\* handle h was created by the call being made: handles are given out in
\* order, and nextId is the first one not given out before the call
CreatedNow(h) == h >= nextId

EntersRun == pc = "idle" /\ pc' = "running"

\* C12: in ephemeral mode every run() call that gets to its steps runs on
\* an engine, a browser, a context and a page started by that call; nothing
\* an earlier run() created is used again.
C12_EphemeralRunStartsFresh ==
    [][EntersRun /\ ~reuse_browser =>
          /\ CreatedNow(_playwright')
          /\ CreatedNow(_browser')
          /\ CreatedNow(_context')
          /\ CreatedNow(page')]_vars

(* ---- C13 ------------------------------------------------------------- *)
\* the engine, browser and context the constructor started
Constructed ==
    {Obj("playwright", 1, 0), Obj("browser", 2, 1), Obj("context", 3, 2)}

\* C13: in reusable mode the runner holds, before, during and after every
\* run() call, the engine, browser and context its constructor started, and
\* they are alive.
C13_ReusableSessionKept ==
    reuse_browser =>
        /\ _playwright = 1 /\ _browser = 2 /\ _context = 3
        /\ Constructed \subseteq live

\* a second run() on a reusable runner aborted on its second step
C13_Witness ==
    /\ reuse_browser
    /\ runs = 2
    /\ pc = "raised"
    /\ Len(steps) = 2
    /\ C13_ReusableSessionKept

(* ---- C14 ------------------------------------------------------------- *)
\* step k is a click by text that neither strategy of the resolver could
\* click, after steps that all succeeded, and does not set the flag
MissedClickAt(k) ==
    /\ action_of(steps[k]) \in {"click", "click_text"}
    /\ Branch(steps[k]) = "text"
    /\ trace[k].fault = "resolution"
    /\ ~Flagged(k)
    /\ \A j \in 1..(k - 1) : ~Failed(j)

\* C14: when step i is a click by text the resolver cannot find, steps
\* 1..i-1 succeeded and step i has no continue_on_error, steps holds exactly
\* i entries, the i-th has status=error, and run() raises.
C14_MissedClickAborts ==
    \A k \in Attempted :
        MissedClickAt(k) =>
            /\ Len(steps) = k
            /\ Len(results.steps) = k
            /\ Status(k) = "error"
            /\ \A j \in 1..(k - 1) : Status(j) # "error"
            /\ pc \in {"aborting", "raised"}

\* run() has raised out of a second step that was such a click
C14_Witness ==
    /\ pc = "raised"
    /\ Len(steps) = 2
    /\ MissedClickAt(2)
    /\ results.steps[2].step = 2

(* ---- C15 ------------------------------------------------------------- *)
\* C15: every StepResult appended to steps has a status field, and its
\* value is ok or error.
C15_EveryStepResultHasStatus ==
    \A k \in 1..Len(results.steps) : Status(k) \in {"ok", "error"}

(* ---- C16 ------------------------------------------------------------- *)
\* C16: every file a run writes is written under download_dir.
C16_WritesOnlyUnderDownloadDir ==
    \A f \in written : f[1] = "download_dir"

(* ---- C17 ------------------------------------------------------------- *)
\* the messages of the exceptions the engine raises while the session is
\* acquired and released
EngineFaults ==
    {"engine start failed", "browser launch failed", "new_context failed",
     "new_page failed", "'NoneType' object has no attribute 'new_page'",
     "context close failed", "browser close failed", "engine stop failed"}

LivePages == {o \in live : o.kind = "page"}

\* the loop ended without enumerating a step
EmptyGuideDone == runs > 0 /\ steps = <<>> /\ pc \in {"returned", "raised"}

\* C17: for a guide with zero steps run() returns a RunResult whose steps
\* and downloads are empty, after acquiring a page and releasing the
\* session (torn down when ephemeral, kept when reusable); it raises only
\* when the engine itself faults.
C17_EmptyGuideReturnsEmpty ==
    EmptyGuideDone =>
        /\ results.steps = <<>> /\ results.downloads = <<>> /\ written = {}
        /\ pc = "raised" => exc.message \in EngineFaults
        /\ pc = "returned" =>
              /\ page # 0
              /\ ~reuse_browser =>
                    _playwright = 0 /\ _browser = 0 /\ _context = 0 /\ live = {}
              /\ reuse_browser =>
                    _context # 0 /\ LivePages \subseteq {Obj("page", page, _context)}

\* an ephemeral run() of a guide with zero steps has returned
C17_Witness ==
    /\ EmptyGuideDone
    /\ pc = "returned"
    /\ ~reuse_browser
    /\ page # 0
    /\ results.steps = <<>>

(* ---- C18 ------------------------------------------------------------- *)
\* one iteration of the loop is taken
StepTaken == pc = "running" /\ Len(steps') = Len(steps) + 1

\* the step just taken is a click_new_page recorded with status ok
OpenedNow ==
    LET k == Len(steps')
    IN /\ Lower(Get(steps'[k], "action", "")) = "click_new_page"
       /\ Get(results'.steps[k], "status", "missing") = "ok"

\* C18: a step changes the current page only when it is a click_new_page
\* that succeeds, and then to the page it opened; every other step, and a
\* click_new_page that fails for any cause, leaves the current page as it
\* was.  Nothing else between acquisition and return changes it.
C18_OnlySuccessfulOpenChangesPage ==
    [][/\ StepTaken =>
            IF OpenedNow
            THEN page' = trace'[Len(steps')].opened /\ page' >= nextId
            ELSE page' = page
       /\ pc \in {"running", "aborting"} /\ ~StepTaken => page' = page]_vars

\* a flagged click_new_page opened a page that did not load in time, and a
\* later step acted on the page that was current before it
C18_Witness ==
    \E j \in Attempted : \E k \in Attempted :
        /\ j < k
        /\ action_of(steps[j]) = "click_new_page"
        /\ Status(j) = "error"
        /\ trace[j].opened # 0
        /\ trace[k].page # 0
        /\ trace[k].page = trace[j].page
        /\ action_of(steps[k]) = "goto" /\ Status(k) = "ok"

(* ---- C20 ------------------------------------------------------------- *)
\* run() is over and the page.close() of its finally went through
PageClosedAtExit ==
    /\ pc \in {"returned", "raised"}
    /\ page # 0
    /\ Obj("page", page, _context) \notin live

\* C20: in reusable mode, when run() has returned or raised, every page
\* opened during the run, the first one and those click_new_page opened, is
\* closed: no page is left open in the shared context.
C20_ReusableRunClosesItsPages ==
    reuse_browser /\ PageClosedAtExit => LivePages = {}

(* ---- C19 ------------------------------------------------------------- *)
\* the i-th element of the page of the call can be read and its text,
\* trimmed, is not empty and contains the hint, letter case aside
Matching(i) ==
    /\ call.anchors[i].read = "ok"
    /\ Strip(call.anchors[i].inner) # <<>>
    /\ Contains(LowerChars(Strip(call.anchors[i].inner)), LowerChars(call.text))

\* the elements the fallback can click: matching, and the click returns
Clickable ==
    {i \in 1..Len(call.anchors) :
        call.query = "ok" /\ Matching(i) /\ call.anchors[i].click = "ok"}

\* the elements the fallback has to try: the matching ones, up to and
\* including the first clickable one
ToTry ==
    {i \in 1..Len(call.anchors) :
        call.query = "ok" /\ Matching(i) /\ \A j \in Clickable : i <= j}

Range(seq) == {seq[i] : i \in 1..Len(seq)}

Increasing(seq) == \A i \in 1..Len(seq) : \A j \in 1..Len(seq) : i < j => seq[i] < seq[j]

\* C19: the resolver tries the fallback only after the primary click
\* failed; the fallback tries, in enumeration order, the elements whose
\* non-empty text contains the hint case-insensitively and stops at the
\* first click that succeeds; a call makes at most one successful click;
\* it reports not found exactly when neither strategy clicked anything,
\* and the step's status follows the report.
C19_ResolverClicksFirstMatch ==
    call.made =>
        LET r == call.result
        IN /\ call.primary = "ok" => r.first /\ r.attempts = <<>> /\ r.clicked = <<>>
           /\ call.primary # "ok" =>
                 /\ ~r.first
                 /\ Increasing(r.attempts) /\ Range(r.attempts) = ToTry
                 /\ Range(r.clicked) = {i \in Clickable : \A j \in Clickable : i <= j}
           /\ Len(r.clicked) + (IF r.first THEN 1 ELSE 0) <= 1
           /\ ~r.ok <=> (~r.first /\ r.clicked = <<>>)
           /\ Status(Len(steps)) = IF r.ok THEN "ok" ELSE "error"

\* the primary click failed, the click on the first matching element failed
\* too, and the second matching element was clicked
C19_Witness ==
    /\ call.made
    /\ call.primary = "raise"
    /\ call.result.attempts = <<1, 2>>
    /\ call.result.clicked = <<2>>
    /\ call.result.ok
    /\ Matching(1) /\ Matching(2)
====
